---- MODULE Spec2Model ----
(***************************************************************************)
(* Chain classification and identifier normalization of the two scripts    *)
(*   be_votis_wallet/scripts/process_defillama_chains.py                   *)
(*   be_votis_wallet/scripts/process_coingecko_chains.py                   *)
(* Python str values are TLA+ strings (Len, SubSeq and \o act on them as   *)
(* on sequences of characters).  Optional values (None, int, str) are      *)
(* tagged records.                                                         *)
(***************************************************************************)
EXTENDS Integers, Sequences, FiniteSets, TLC

VARIABLES
    script,              \* which script runs: "defillama" or "coingecko"
    n_processed,         \* records the batch loop has consumed so far
    evm_chains,          \* process_chains: EVM group
    non_evm_chains,      \* process_chains: non-EVM group
    new_evm_chains,      \* generate_new_chains: EVM group
    new_non_evm_chains,  \* generate_new_chains: non-EVM group
    chain_data,          \* process_chains: the loop variable (None before the loop)
    chain,               \* generate_new_chains: the loop variable (None before the loop)
    arg,                 \* normalizer call: the name given
    fn,                  \* normalizer call: the normalizer applied
    out1,                \* normalizer call: normalizer(arg)
    out2                 \* normalizer call: normalizer(normalizer(arg))

vars == <<script, n_processed, evm_chains, non_evm_chains, new_evm_chains,
          new_non_evm_chains, chain_data, chain, arg, fn, out1, out2>>

batch_vars == <<script, n_processed, evm_chains, non_evm_chains,
                new_evm_chains, new_non_evm_chains, chain_data, chain>>

norm_vars == <<arg, fn, out1, out2>>

(***************************************************************************)
(* Bounds of the model.                                                    *)
(***************************************************************************)
\* Records one run of a batch loop consumes.
MaxBatch == 2

\* Tokens concatenated to build the generated names given to the normalizers.
MaxTokens == 4

(***************************************************************************)
(* Python values.                                                          *)
(***************************************************************************)
None == [t |-> "none"]

PyInt(v) == [t |-> "int", v |-> v]

PyStr(s) == [t |-> "str", s |-> s]

PyBool(b) == [t |-> "bool", b |-> b]

\* bool(x) of an optional int / str value
Truthy(x) ==
    CASE x.t = "none" -> FALSE
      [] x.t = "int"  -> x.v # 0
      [] x.t = "str"  -> x.s # ""
      [] x.t = "bool" -> x.b

\* (x or '') of an optional str value
OrEmpty(x) == IF x.t = "str" THEN x.s ELSE ""

\* str(x) of an int or a str value
PyToStr(x) ==
    CASE x.t = "int" -> IF x.v < 0 THEN "-" \o ToString(0 - x.v) ELSE ToString(x.v)
      [] x.t = "str" -> x.s
      [] OTHER       -> "None"

(***************************************************************************)
(* Python str methods.                                                     *)
(***************************************************************************)
UpperChars == "ABCDEFGHIJKLMNOPQRSTUVWXYZ"

LowerChars == "abcdefghijklmnopqrstuvwxyz"

DigitChars == "0123456789"

Chr(s, i) == SubSeq(s, i, i)

\* c in s, for a single character c
CharIn(c, s) == \E i \in 1..Len(s) : Chr(s, i) = c

LowerChar(c) ==
    IF CharIn(c, UpperChars)
    THEN Chr(LowerChars, CHOOSE i \in 1..Len(UpperChars) : Chr(UpperChars, i) = c)
    ELSE c

RECURSIVE MapLower(_, _)
MapLower(s, i) == IF i > Len(s) THEN "" ELSE LowerChar(Chr(s, i)) \o MapLower(s, i + 1)

\* s.lower()
Lower(s) == MapLower(s, 1)

\* sub in s
Contains(sub, s) ==
    \E i \in 1..(Len(s) - Len(sub) + 1) : SubSeq(s, i, i + Len(sub) - 1) = sub

RECURSIVE ReplaceFrom(_, _, _, _)
ReplaceFrom(s, old, new, i) ==
    IF i > Len(s) THEN ""
    ELSE IF i + Len(old) - 1 <= Len(s) /\ SubSeq(s, i, i + Len(old) - 1) = old
         THEN new \o ReplaceFrom(s, old, new, i + Len(old))
         ELSE Chr(s, i) \o ReplaceFrom(s, old, new, i + 1)

\* s.replace(old, new), old non-empty: one left-to-right pass over
\* non-overlapping occurrences
Replace(s, old, new) == ReplaceFrom(s, old, new, 1)

RECURSIVE LStrip(_, _)
LStrip(s, c) == IF s # "" /\ Chr(s, 1) = c THEN LStrip(SubSeq(s, 2, Len(s)), c) ELSE s

RECURSIVE RStrip(_, _)
RStrip(s, c) ==
    IF s # "" /\ Chr(s, Len(s)) = c THEN RStrip(SubSeq(s, 1, Len(s) - 1), c) ELSE s

\* s.strip(c)
Strip(s, c) == RStrip(LStrip(s, c), c)

\* s.isdigit()
IsDigit(s) == s # "" /\ \A i \in 1..Len(s) : CharIn(Chr(s, i), DigitChars)

IsAtomChar(c) == CharIn(c, LowerChars) \/ CharIn(c, UpperChars) \/ CharIn(c, DigitChars) \/ c = "_"

RECURSIVE SubNonAtom(_, _)
SubNonAtom(s, i) ==
    IF i > Len(s) THEN ""
    ELSE (IF IsAtomChar(Chr(s, i)) THEN Chr(s, i) ELSE "_") \o SubNonAtom(s, i + 1)

\* re.sub(r'[^a-zA-Z0-9_]', '_', s)
ReSubNonAtom(s) == SubNonAtom(s, 1)

RECURSIVE CollapseFrom(_, _)
CollapseFrom(s, i) ==
    IF i > Len(s) THEN ""
    ELSE IF Chr(s, i) = "_" /\ i > 1 /\ Chr(s, i - 1) = "_"
         THEN CollapseFrom(s, i + 1)
         ELSE Chr(s, i) \o CollapseFrom(s, i + 1)

\* re.sub(r'_+', '_', s)
ReSubUnderscores(s) == CollapseFrom(s, 1)

\* d.get(key, default) of a dict given as a sequence of <<key, value>> pairs
DictGet(d, key, default) ==
    IF \E i \in 1..Len(d) : d[i][1] = key
    THEN d[CHOOSE i \in 1..Len(d) : d[i][1] = key][2]
    ELSE default

(***************************************************************************)
(* process_coingecko_chains.py: tables and the normalizer.                 *)
(***************************************************************************)
EXISTING_CHAINS ==
    { "bitcoin", "solana", "tron", "kava", "litecoin", "dogecoin", "iotex", "terra",
      "aptos", "hedera", "cosmos", "kusama", "polkadot", "flow", "zilliqa", "neo", "secret",
      "ethereum", "polygon", "arbitrum", "optimism", "bnb_smart_chain", "avalanche", "base",
      "harmony", "mantle", "celo", "sonic", "moonbeam", "fraxtal", "taiko", "gnosis",
      "fantom", "zksync_era", "linea", "scroll", "blast", "polygon_zkevm", "arbitrum_nova",
      "cronos", "manta", "zircuit", "klaytn" }

CG_SLIP44_COIN_TYPES ==
    << <<"cardano", 1815>>, <<"stellar", 148>>, <<"near", 397>>, <<"ton", 607>>,
       <<"xrp", 144>>, <<"stacks", 5757>>, <<"osmosis", 118>>, <<"multiversx", 508>>,
       <<"waves", 5741564>>, <<"sui", 784>> >>

cg_replacements ==
    << <<"gnosis_", "gnosis">>, <<"rootstock_rsk", "rootstock">>, <<"plume_", "plume">>,
       <<"bob_", "bob">>, <<"near_", "near">>, <<"flare_", "flare">>,
       <<"hedera_hashgraph", "hedera">>, <<"xrp_ledger", "xrp">>, <<"world_", "world">>,
       <<"merlin_", "merlin">>, <<"metis_andromeda", "metis">>, <<"morph_layer2", "morph">> >>

cg_sanitized(name) ==
    LET s1 == Replace(Replace(Lower(name), " ", "_"), "-", "_")
        s2 == Replace(Replace(Replace(s1, "chain", ""), "network", ""), "protocol", "")
    IN  Strip(Replace(Replace(s2, "_l2", "_layer2"), "__", "_"), "_")

normalize_name_to_atom(name) ==
    LET sanitized == cg_sanitized(name)
    IN  DictGet(cg_replacements, sanitized, sanitized)

(***************************************************************************)
(* process_defillama_chains.py: tables and the normalizers.                *)
(***************************************************************************)
NON_EVM_CHAINS ==
    { "bitcoin", "btc", "litecoin", "ltc", "dogecoin", "doge",
      "solana", "sol", "aptos", "apt", "flow", "cosmos", "atom",
      "polkadot", "dot", "kusama", "ksm", "near", "cardano", "ada",
      "algorand", "algo", "tron", "trx", "xrp", "ripple",
      "stellar", "xlm", "monero", "xmr", "zcash", "zec",
      "terra", "luna", "lunc", "secret", "scrt", "osmosis", "osmo",
      "juno", "stafi", "fis", "bifrost", "bnc", "hedera", "hbar",
      "zilliqa", "zil", "neo", "gas", "eos", "wax", "iotx",
      "kava", "hard", "swp", "usdx" }

\* in the dict's insertion order, which the lookup loop follows
SLIP44_COIN_TYPES ==
    << <<"bitcoin", 0>>, <<"litecoin", 2>>, <<"dogecoin", 3>>, <<"ethereum", 60>>,
       <<"ethereum classic", 61>>, <<"ripple", 144>>, <<"tron", 195>>, <<"eos", 194>>,
       <<"stellar", 148>>, <<"monero", 128>>, <<"zcash", 133>>, <<"algorand", 283>>,
       <<"solana", 501>>, <<"polkadot", 354>>, <<"kusama", 434>>, <<"cardano", 1815>>,
       <<"near", 397>>, <<"cosmos", 118>>, <<"terra", 330>>, <<"secret", 529>>,
       <<"kava", 459>>, <<"osmosis", 118>>, <<"juno", 118>>, <<"stargaze", 118>>,
       <<"akash", 118>>, <<"regen", 118>>, <<"sentinel", 118>>, <<"persistence", 118>>,
       <<"crypto.org", 394>>, <<"binance", 714>>, <<"thorchain", 931>>,
       <<"mayachain", 931>>, <<"hedera", 3030>>, <<"zilliqa", 313>>, <<"neo", 888>>,
       <<"flow", 539>>, <<"aptos", 637>>, <<"sui", 784>>, <<"filecoin", 461>>,
       <<"chia", 8444>>, <<"handshake", 5353>>, <<"decred", 42>>, <<"iotex", 304>>,
       <<"waves", 5741564>>, <<"elrond", 508>>, <<"tezos", 1729>>, <<"vechain", 818>> >>

evm_patterns ==
    { "ethereum", "eth", "polygon", "arbitrum", "optimism", "base", "avalanche",
      "binance", "bnb", "fantom", "harmony", "moonbeam", "moonriver", "aurora",
      "celo", "gnosis", "xdai", "metis", "boba", "cronos", "evmos", "kava",
      "oasis", "fuse", "velas", "wanchain", "thundercore", "tomochain",
      "heco", "okex", "zksync", "loopring", "immutablex", "starknet",
      "linea", "scroll", "mantle", "blast", "zircuit", "taiko", "mode",
      "fraxtal", "manta", "katana", "ronin", "astar", "shiden",
      "klaytn", "canto", "energi", "syscoin", "rsk", "rootstock" }

dl_replacements ==
    << <<"xdai", "gnosis">>, <<"bnb_smart_chain", "bnb_smart_chain">>,
       <<"binance", "bnb_smart_chain">>, <<"ethereum_classic", "ethereum_classic">>,
       <<"okexchain", "okex_chain">>, <<"op_bnb", "opbnb">>,
       <<"arbitrum_nova", "arbitrum_nova">>, <<"polygon_zkevm", "polygon_zkevm">>,
       <<"zksync_era", "zksync_era">>, <<"bnb_chain", "bnb_smart_chain">> >>

normalize_chain_name(name) ==
    Replace(Replace(Replace(Lower(name), " ", ""), "-", ""), "_", "")

dl_sanitized(name) == Strip(ReSubUnderscores(ReSubNonAtom(Lower(name))), "_")

sanitize_atom_name(name) ==
    LET sanitized == dl_sanitized(name)
    IN  DictGet(dl_replacements, sanitized, sanitized)

(***************************************************************************)
(* process_defillama_chains.py: classification of one chain_data record     *)
(* [name, chainId, tokenSymbol, gecko_id].                                  *)
(***************************************************************************)
has_digit_chain_id(cd) ==
    Truthy(cd.chainId) /\ IsDigit(PyToStr(cd.chainId))

matches_non_evm(cd) ==
    LET name == Lower(cd.name)
        symbol == Lower(OrEmpty(cd.tokenSymbol))
        gecko_id == Lower(OrEmpty(cd.gecko_id))
        normalized_name == normalize_chain_name(name)
    IN  \E non_evm \in NON_EVM_CHAINS :
            \/ Contains(non_evm, normalized_name)
            \/ Contains(non_evm, symbol)
            \/ Contains(non_evm, gecko_id)

matches_evm_pattern(cd) ==
    LET name == Lower(cd.name)
        gecko_id == Lower(OrEmpty(cd.gecko_id))
        normalized_name == normalize_chain_name(name)
    IN  \E pattern \in evm_patterns :
            Contains(pattern, normalized_name) \/ Contains(pattern, gecko_id)

is_evm_compatible(cd) ==
    IF matches_non_evm(cd) THEN FALSE
    ELSE IF has_digit_chain_id(cd) THEN TRUE
    ELSE IF matches_evm_pattern(cd) THEN TRUE
    ELSE IF Contains("evm", normalize_chain_name(Lower(cd.name))) THEN TRUE
    ELSE IF Truthy(cd.chainId) THEN TRUE
    ELSE FALSE

\* indexes of the SLIP44_COIN_TYPES entries whose key is in the name or the symbol
slip44_matches(cd) ==
    LET name == Lower(cd.name)
        symbol == Lower(OrEmpty(cd.tokenSymbol))
        normalized_name == normalize_chain_name(name)
    IN  { i \in 1..Len(SLIP44_COIN_TYPES) :
            \/ Contains(SLIP44_COIN_TYPES[i][1], normalized_name)
            \/ Contains(SLIP44_COIN_TYPES[i][1], symbol) }

\* slip44_default with a fallback of its own for chains that are not EVM
slip44_default_zero(cd) ==
    IF is_evm_compatible(cd) THEN 60 ELSE 0

\* the fallback of get_slip44_coin_type, when no key of the table matched
slip44_default(cd) ==
    IF is_evm_compatible(cd) THEN 60 ELSE 60

get_slip44_coin_type(cd) ==
    LET m == slip44_matches(cd)
    IN  IF m # {}
        THEN SLIP44_COIN_TYPES[CHOOSE i \in m : \A j \in m : i <= j][2]
        ELSE slip44_default(cd)

\* generate_derivation_path without the special case for Solana
derivation_path_no_solana(cd, coin_type) ==
    IF is_evm_compatible(cd) THEN "m/44'/60'/0'/0/0"
    ELSE "m/44'/" \o ToString(coin_type) \o "'/0'/0/0"

generate_derivation_path(cd, coin_type) ==
    IF is_evm_compatible(cd) THEN "m/44'/60'/0'/0/0"
    ELSE LET name == Lower(cd.name)
         IN  IF Contains("solana", name)
             THEN "m/44'/" \o ToString(coin_type) \o "'/0'/0'"
             ELSE IF \E cosmos_chain \in {"cosmos", "terra", "secret", "kava", "osmosis", "juno"} :
                        Contains(cosmos_chain, name)
             THEN "m/44'/" \o ToString(coin_type) \o "'/0'/0/0"
             ELSE "m/44'/" \o ToString(coin_type) \o "'/0'/0/0"

get_curve_and_address_format(cd) ==
    LET name == Lower(cd.name)
    IN  IF Contains("solana", name)
        THEN <<"CURVE_ED25519", "ADDRESS_FORMAT_SOLANA">>
        ELSE IF Contains("bitcoin", name) /\ "bitcoin" = normalize_chain_name(name)
        THEN <<"CURVE_SECP256K1", "ADDRESS_FORMAT_BITCOIN_MAINNET_P2WPKH">>
        ELSE IF Contains("tron", name)
        THEN <<"CURVE_SECP256K1", "ADDRESS_FORMAT_TRON">>
        ELSE IF Contains("flow", name)
        THEN <<"CURVE_SECP256K1", "ADDRESS_FORMAT_FLOW">>
        ELSE <<"CURVE_SECP256K1", "ADDRESS_FORMAT_ETHEREUM">>

\* the chain_config dict process_chains builds for one record
dl_chain_config(cd) ==
    LET coin_type == get_slip44_coin_type(cd)
        caf == get_curve_and_address_format(cd)
        symbol == cd.tokenSymbol
    IN  [ atom_name         |-> sanitize_atom_name(cd.name),
          chain_id          |-> cd.chainId,
          name              |-> cd.name,
          symbol            |-> IF Truthy(symbol) THEN symbol.s ELSE "ETH",
          curve             |-> caf[1],
          address_format    |-> caf[2],
          path              |-> generate_derivation_path(cd, coin_type),
          slip44_coin_type  |-> coin_type,
          is_evm_compatible |-> is_evm_compatible(cd),
          gecko_id          |-> cd.gecko_id ]

(***************************************************************************)
(* Inputs of the batch loops.                                              *)
(***************************************************************************)
\* names the DeFiLlama feed may carry
DlNames ==
    { "", " ", "Binance", "BNB Chain", "Filecoin", "Solana", "XRP Ledger",
      "Arbitrum One", "Bitcoin", "Tron", "Zeta" }

\* chainId values of the feed: absent, numbers, a digit string
DlChainIds == { None, PyInt(0), PyInt(56), PyStr("56") }

DlRow(name, chainId, tokenSymbol, gecko_id) ==
    [ name |-> name, chainId |-> chainId, tokenSymbol |-> tokenSymbol, gecko_id |-> gecko_id ]

\* decoded records of response.json(): every name with every chainId, and a
\* few records that carry a tokenSymbol or a gecko_id
DlRecords ==
    { DlRow(n, c, None, None) : n \in DlNames, c \in DlChainIds }
    \cup { DlRow("Solana", None, PyStr("EOS"), PyStr("solana")),
           DlRow("XRP Ledger", None, PyStr("XRP"), PyStr("ripple")),
           DlRow("Rootstock", PyInt(30), PyStr("RBTC"), PyStr("rootstock")),
           DlRow("Zeta", None, PyStr(""), PyStr("zetachain")),
           DlRow("Flow", PyInt(747), PyStr("FLOW"), PyStr("flow")),
           DlRow("Wrapped SOLANA", None, PyStr("wSOL"), None),
           DlRow("Zeta", PyStr("0"), None, None) }

CgRow(rank, name, symbol, chain_id, existing, is_evm) ==
    [ rank |-> rank, name |-> name, symbol |-> symbol, chain_id |-> chain_id,
      existing |-> existing, is_evm |-> is_evm ]

\* rows of the COINGECKO_CHAINS table (a key the row lacks is None)
COINGECKO_CHAINS ==
    { CgRow(1, "Ethereum", "ETH", PyInt(1), PyBool(TRUE), None),
      CgRow(2, "Solana", "SOL", None, PyBool(TRUE), None),
      CgRow(4, "BNB Smart Chain", "BNB", PyInt(56), PyBool(TRUE), None),
      CgRow(7, "Arbitrum One", "ARB", PyInt(42161), PyBool(TRUE), None),
      CgRow(8, "Hyperliquid", "HYPE", None, None, PyBool(FALSE)),
      CgRow(9, "Sui", "SUI", None, None, PyBool(FALSE)),
      CgRow(15, "Sei Network", "SEI", None, None, PyBool(FALSE)),
      CgRow(16, "Unichain", "ETH", PyInt(1301), None, PyBool(TRUE)),
      CgRow(24, "Gnosis Chain", "GNO", PyInt(100), PyBool(TRUE), None),
      CgRow(26, "Rootstock RSK", "RBTC", PyInt(30), None, PyBool(TRUE)),
      CgRow(30, "Near Protocol", "NEAR", None, None, PyBool(FALSE)),
      CgRow(32, "Stellar", "XLM", None, None, PyBool(FALSE)),
      CgRow(38, "Kava", "KAVA", PyInt(2222), None, PyBool(TRUE)),
      CgRow(42, "XRP Ledger", "XRP", None, None, PyBool(FALSE)),
      CgRow(49, "World Chain", "WLD", PyInt(480), None, PyBool(TRUE)),
      CgRow(58, "Morph L2", "ETH", PyInt(2818), None, PyBool(TRUE)),
      CgRow(60, "Filecoin", "FIL", PyInt(314), None, PyBool(TRUE)) }

\* rows of the same shape the table does not hold today
CgOtherRows ==
    { CgRow(66, "Zeta", "ZETA", None, None, None),
      CgRow(67, "Zeta", "ZETA", PyInt(7000), None, PyBool(FALSE)),
      CgRow(68, "Stellar", "XLM", PyInt(148), None, PyBool(TRUE)),
      CgRow(69, "BNB Smart Chain", "BNB", PyInt(56), None, PyBool(TRUE)),
      CgRow(70, "Bitcoin", "BTC", None, None, PyBool(FALSE)),
      CgRow(71, "Polygon", "POL", PyInt(137), PyBool(FALSE), PyBool(TRUE)) }

CgRecords == COINGECKO_CHAINS \cup CgOtherRows

\* c.get(key, default) of a row
CgGet(v, default) == IF v = None THEN default ELSE v.b

(***************************************************************************)
(* process_chains: one iteration of the loop over chains_data.             *)
(***************************************************************************)
\* chain_config of every record the feed may carry, evaluated once
dl_configs == [ cd \in DlRecords |-> dl_chain_config(cd) ]

ProcessChain(cd) ==
    /\ script = "defillama"
    /\ n_processed < MaxBatch
    /\ n_processed' = n_processed + 1
    /\ chain_data' = cd
    /\ IF cd.name = ""
       THEN UNCHANGED <<evm_chains, non_evm_chains>>
       ELSE LET chain_config == dl_configs[cd]
            IN  IF chain_config.is_evm_compatible
                THEN /\ evm_chains' = Append(evm_chains, chain_config)
                     /\ UNCHANGED non_evm_chains
                ELSE /\ non_evm_chains' = Append(non_evm_chains, chain_config)
                     /\ UNCHANGED evm_chains
    /\ UNCHANGED <<script, new_evm_chains, new_non_evm_chains, chain>>
    /\ UNCHANGED norm_vars

(***************************************************************************)
(* generate_new_chains: one iteration of the loop over COINGECKO_CHAINS.   *)
(***************************************************************************)
cg_chain_config(c) ==
    [ atom_name         |-> normalize_name_to_atom(c.name),
      chain_id          |-> c.chain_id,
      name              |-> c.name,
      symbol            |-> c.symbol,
      is_evm_compatible |-> CgGet(c.is_evm, TRUE),
      rank              |-> c.rank ]

\* the first continue: c.get("existing", False)
cg_flagged_existing(c) == CgGet(c.existing, FALSE)

\* cg_already_have testing the name as given instead of its atom
cg_already_have_raw(c) == c.name \in EXISTING_CHAINS

\* the second continue: atom_name in EXISTING_CHAINS
cg_already_have(c) == normalize_name_to_atom(c.name) \in EXISTING_CHAINS

\* SLIP44_COIN_TYPES.get(atom_name, 60)
cg_coin_type(atom_name) == DictGet(CG_SLIP44_COIN_TYPES, atom_name, 60)

GenerateNewChain(c) ==
    /\ script = "coingecko"
    /\ n_processed < MaxBatch
    /\ n_processed' = n_processed + 1
    /\ chain' = c
    /\ IF cg_flagged_existing(c) \/ cg_already_have(c)
       THEN UNCHANGED <<new_evm_chains, new_non_evm_chains>>
       ELSE LET chain_config == cg_chain_config(c)
            IN  IF chain_config.is_evm_compatible
                   THEN /\ new_evm_chains' = Append(new_evm_chains, chain_config)
                        /\ UNCHANGED new_non_evm_chains
                   ELSE /\ new_non_evm_chains' =
                              Append(new_non_evm_chains,
                                     [ atom_name         |-> chain_config.atom_name,
                                       chain_id          |-> chain_config.chain_id,
                                       name              |-> chain_config.name,
                                       symbol            |-> chain_config.symbol,
                                       is_evm_compatible |-> chain_config.is_evm_compatible,
                                       rank              |-> chain_config.rank,
                                       slip44_coin_type  |-> cg_coin_type(chain_config.atom_name) ])
                        /\ UNCHANGED new_evm_chains
    /\ UNCHANGED <<script, evm_chains, non_evm_chains, chain_data>>
    /\ UNCHANGED norm_vars

(***************************************************************************)
(* The batch specification: one of the two scripts runs its loop.          *)
(***************************************************************************)
Init ==
    /\ script \in {"defillama", "coingecko"}
    /\ n_processed = 0
    /\ evm_chains = <<>>
    /\ non_evm_chains = <<>>
    /\ new_evm_chains = <<>>
    /\ new_non_evm_chains = <<>>
    /\ chain_data = None
    /\ chain = None
    /\ arg = ""
    /\ fn = "none"
    /\ out1 = None
    /\ out2 = None

Next ==
    \/ \E cd \in DlRecords : ProcessChain(cd)
    \/ \E c \in CgRecords : GenerateNewChain(c)

Spec == Init /\ [][Next]_vars

(***************************************************************************)
(* The normalizer specification: a name is drawn, one of the two           *)
(* normalizers is applied to it, and then applied again to its own result. *)
(***************************************************************************)
Tokens == { "a", "B", " ", "_", ".", "chain" }

RECURSIVE TokenNames(_)
TokenNames(k) ==
    IF k = 0 THEN {""}
    ELSE LET shorter == TokenNames(k - 1)
         IN  shorter \cup { s \o t : s \in shorter, t \in Tokens }

\* names of both sources and names in use upstream
KnownNames ==
    DlNames \cup { r.name : r \in CgRecords }
    \cup { "xDai", "OP BNB", "Crypto.org", "Polygon zkEVM", "Chain", "a   b", "a---b",
           "Cosmos-Hub", "St. Mary's", "!!!", "-", "bnb_smart_chain", "OKExChain" }

Names == KnownNames \cup TokenNames(MaxTokens)

CallNormalizeNameToAtom ==
    /\ fn = "none"
    /\ fn' = "normalize_name_to_atom"
    /\ out1' = PyStr(normalize_name_to_atom(arg))
    /\ UNCHANGED <<arg, out2>>
    /\ UNCHANGED batch_vars

CallSanitizeAtomName ==
    /\ fn = "none"
    /\ fn' = "sanitize_atom_name"
    /\ out1' = PyStr(sanitize_atom_name(arg))
    /\ UNCHANGED <<arg, out2>>
    /\ UNCHANGED batch_vars

CallAgain ==
    /\ fn # "none"
    /\ out2 = None
    /\ out2' = IF fn = "normalize_name_to_atom"
               THEN PyStr(normalize_name_to_atom(out1.s))
               ELSE PyStr(sanitize_atom_name(out1.s))
    /\ UNCHANGED <<arg, fn, out1>>
    /\ UNCHANGED batch_vars

InitNorm ==
    /\ script = "none"
    /\ n_processed = 0
    /\ evm_chains = <<>>
    /\ non_evm_chains = <<>>
    /\ new_evm_chains = <<>>
    /\ new_non_evm_chains = <<>>
    /\ chain_data = None
    /\ chain = None
    /\ arg \in Names
    /\ fn = "none"
    /\ out1 = None
    /\ out2 = None

NextNorm == CallNormalizeNameToAtom \/ CallSanitizeAtomName \/ CallAgain

SpecNorm == InitNorm /\ [][NextNorm]_vars

(***************************************************************************)
(* Properties.                                                             *)
(***************************************************************************)
Range(f) == { f[i] : i \in DOMAIN f }

\* entries process_chains has emitted, and those generate_new_chains has
DlEntries == Range(evm_chains) \cup Range(non_evm_chains)

CgEntries == Range(new_evm_chains) \cup Range(new_non_evm_chains)

EthereumPath == "m/44'/60'/0'/0/0"

\* C1: every emitted entry with is_evm_compatible = true has curve SECP256K1,
\* address format ETHEREUM, Ethereum's derivation path and coin type 60.
C1_EvmInvariant ==
    \A e \in DlEntries :
        e.is_evm_compatible =>
            /\ e.curve = "CURVE_SECP256K1"
            /\ e.address_format = "ADDRESS_FORMAT_ETHEREUM"
            /\ e.path = EthereumPath
            /\ e.slip44_coin_type = 60

\* an entry's name, symbol or gecko id holds an entry of the non-EVM denylist
EntryOnDenylist(e, gecko_id) ==
    \E non_evm \in NON_EVM_CHAINS :
        \/ Contains(non_evm, normalize_chain_name(Lower(e.name)))
        \/ Contains(non_evm, Lower(e.symbol))
        \/ Contains(non_evm, Lower(gecko_id))

\* C2: no entry whose name, symbol or ecosystem tag matches the non-EVM
\* denylist is emitted as EVM-compatible, whatever its flag and chain id.
C2_DenylistPrecedence ==
    /\ \A e \in DlEntries :
           EntryOnDenylist(e, OrEmpty(e.gecko_id)) => ~e.is_evm_compatible
    /\ \A e \in CgEntries :
           EntryOnDenylist(e, "") => ~e.is_evm_compatible

\* C3: normalizing the result of a normalizer again returns it unchanged,
\* for every non-empty name.
C3_Idempotent ==
    (arg # "" /\ out2 # None) => out2 = out1

\* s holds a letter or a digit
HasAlnum(s) ==
    \E i \in 1..Len(s) :
        CharIn(Chr(s, i), LowerChars) \/ CharIn(Chr(s, i), UpperChars) \/ CharIn(Chr(s, i), DigitChars)

\* s uses only [a-z0-9_], has no leading, trailing or doubled underscore
IsCanonical(s) ==
    /\ \A i \in 1..Len(s) :
           CharIn(Chr(s, i), LowerChars) \/ CharIn(Chr(s, i), DigitChars) \/ Chr(s, i) = "_"
    /\ s # "" => (Chr(s, 1) # "_" /\ Chr(s, Len(s)) # "_")
    /\ ~Contains("__", s)

\* C4: the canonical id a normalizer returns for a name it accepts uses
\* only [a-z0-9_], does not start or end with an underscore and has no two
\* consecutive underscores.
C4_CanonicalForm ==
    (HasAlnum(arg) /\ out1 # None) => IsCanonical(out1.s)

\* the step consumed a row of the table and generated no entry for it
CgStepSkips ==
    /\ new_evm_chains' = new_evm_chains
    /\ new_non_evm_chains' = new_non_evm_chains

CgStep == script = "coingecko" /\ n_processed' = n_processed + 1

\* C5 as stated: a row is skipped if and only if its normalized name is in
\* the known-chain set.
C5_SkipIffKnown ==
    [][ CgStep => (CgStepSkips <=> normalize_name_to_atom(chain'.name) \in EXISTING_CHAINS) ]_vars

\* C5 amended: a row is skipped if and only if it is flagged existing or its
\* normalized name is in the known-chain set.
C5_SkipIffFlaggedOrKnown ==
    [][ CgStep =>
          (CgStepSkips <=> \/ chain'.existing = PyBool(TRUE)
                           \/ normalize_name_to_atom(chain'.name) \in EXISTING_CHAINS) ]_vars

\* a row flagged existing whose normalized name is not known was skipped
\* after another row was emitted
C5_Witness ==
    /\ script = "coingecko"
    /\ n_processed = 2
    /\ Len(new_evm_chains) + Len(new_non_evm_chains) = 1
    /\ chain.name = "Arbitrum One"
    /\ chain.existing = PyBool(TRUE)
    /\ normalize_name_to_atom(chain.name) \notin EXISTING_CHAINS

\* C6: "BNB Smart Chain" normalizes to "bnb_smart_chain", a member of the
\* known-chain set.
C6_BnbSmartChain ==
    (arg = "BNB Smart Chain" /\ out1 # None) =>
        (out1.s = "bnb_smart_chain" /\ out1.s \in EXISTING_CHAINS)

\* C7: the record named "XRP Ledger" without a chain id is emitted as
\* non-EVM with coin type 144.
C7_XrpLedger ==
    \A e \in DlEntries :
        (e.name = "XRP Ledger" /\ e.chain_id = None) =>
            (~e.is_evm_compatible /\ e.slip44_coin_type = 144)

\* the feed's names that contain "solana"
SolanaNames == { n \in { cd.name : cd \in DlRecords } : Contains("solana", Lower(n)) }

FourLevelPath(coin_type) == "m/44'/" \o ToString(coin_type) \o "'/0'/0'"

FiveLevelPath(coin_type) == "m/44'/" \o ToString(coin_type) \o "'/0'/0/0"

C9_TotalOrInvalidName ==
    (fn = "sanitize_atom_name" /\ out1 # None) =>
        IF HasAlnum(arg)
        THEN out1.t = "str" /\ out1.s # ""
        ELSE out1 = [t |-> "error", e |-> "InvalidNameError"]

\* the records of the feed that hold no key of the coin-type table, in the
\* name or in the symbol
UncoveredRecords ==
    { cd \in DlRecords :
        \A i \in 1..Len(SLIP44_COIN_TYPES) :
            /\ ~Contains(SLIP44_COIN_TYPES[i][1], normalize_chain_name(Lower(cd.name)))
            /\ ~Contains(SLIP44_COIN_TYPES[i][1], Lower(OrEmpty(cd.tokenSymbol))) }

\* entry e carries the name, chain id, symbol and gecko id of record cd
BuiltFrom(e, cd) ==
    /\ e.name = cd.name
    /\ e.chain_id = cd.chainId
    /\ e.gecko_id = cd.gecko_id
    /\ e.symbol = (IF Truthy(cd.tokenSymbol) THEN cd.tokenSymbol.s ELSE "ETH")

\* the entry was built from a record the coin-type table does not cover
NoSlip44Key(e) == \E cd \in UncoveredRecords : BuiltFrom(e, cd)

\* C10: an entry without chain id that the coin-type table does not cover
\* has coin type 60, EVM-compatible or not.
C10_Fallback60 ==
    /\ \A e \in DlEntries :
           (e.chain_id = None /\ NoSlip44Key(e)) => e.slip44_coin_type = 60
    /\ \A e \in Range(new_non_evm_chains) :
           (e.chain_id = None /\ \A i \in 1..Len(CG_SLIP44_COIN_TYPES) :
                                     CG_SLIP44_COIN_TYPES[i][1] # e.atom_name)
               => e.slip44_coin_type = 60

\* an uncovered record without chain id was emitted in each group
C10_Witness ==
    /\ \E e \in Range(non_evm_chains) :
           e.chain_id = None /\ NoSlip44Key(e) /\ e.slip44_coin_type = 60
    /\ \E e \in Range(evm_chains) :
           e.chain_id = None /\ NoSlip44Key(e) /\ e.slip44_coin_type = 60

\* the record's name, symbol or gecko id holds an entry of the non-EVM denylist
RecordOnDenylist(cd) ==
    \E non_evm \in NON_EVM_CHAINS :
        \/ Contains(non_evm, normalize_chain_name(Lower(cd.name)))
        \/ Contains(non_evm, Lower(OrEmpty(cd.tokenSymbol)))
        \/ Contains(non_evm, Lower(OrEmpty(cd.gecko_id)))

\* x is a non-negative integer, given as a number or as a digit string
ValidChainId(x) ==
    \/ x.t = "int" /\ x.v >= 0
    \/ x.t = "str" /\ IsDigit(x.s)

\* the named records of the feed off the denylist that carry a valid chain id
DecisiveRecords ==
    { cd \in DlRecords : cd.name # "" /\ ~RecordOnDenylist(cd) /\ ValidChainId(cd.chainId) }

\* C11: an entry built from a record that matches no denylist entry and
\* carries a valid non-negative chain id (0 included, number or digit
\* string) is EVM-compatible.
C11_ChainIdDecisive ==
    \A e \in DlEntries :
        (\E cd \in DecisiveRecords : BuiltFrom(e, cd)) => e.is_evm_compatible

\* the record's name or gecko id holds an entry of the EVM allowlist, or the
\* name holds "evm"
RecordOnAllowlist(cd) ==
    \/ \E pattern \in evm_patterns :
           \/ Contains(pattern, normalize_chain_name(Lower(cd.name)))
           \/ Contains(pattern, Lower(OrEmpty(cd.gecko_id)))
    \/ Contains("evm", normalize_chain_name(Lower(cd.name)))

\* a row of the CoinGecko table read as a raw record
CgAsRecord(r) == DlRow(r.name, r.chain_id, PyStr(r.symbol), None)

\* ranks of the rows off the denylist that carry the explicit flag
FlaggedRanks ==
    { r.rank : r \in { x \in CgRecords : x.is_evm # None /\ ~RecordOnDenylist(CgAsRecord(x)) } }

\* ranks of the rows without flag that no rule matches: off the denylist, no
\* chain id, off the allowlist
NoSignalRanks ==
    { r.rank : r \in { x \in CgRecords :
                         /\ x.is_evm = None
                         /\ x.chain_id = None
                         /\ ~RecordOnDenylist(CgAsRecord(x))
                         /\ ~RecordOnAllowlist(CgAsRecord(x)) } }

\* the records of the feed (which carries no flag) that no rule matches
NoSignalRecords ==
    { cd \in DlRecords :
        cd.chainId = None /\ ~RecordOnDenylist(cd) /\ ~RecordOnAllowlist(cd) }

C13_OneEntryPerAtom ==
    /\ LET g == evm_chains \o non_evm_chains
       IN  \A i, j \in DOMAIN g :
               g[i].name # g[j].name => g[i].atom_name # g[j].atom_name
    /\ LET g == new_evm_chains \o new_non_evm_chains
       IN  \A i, j \in DOMAIN g :
               g[i].rank # g[j].rank => g[i].atom_name # g[j].atom_name
    /\ \A e \in Range(evm_chains) \cup Range(new_evm_chains) : e.is_evm_compatible
    /\ \A e \in Range(non_evm_chains) \cup Range(new_non_evm_chains) : ~e.is_evm_compatible

====
